---- MODULE Spec2Model ----
(***************************************************************************)
(* DisTube: the per-guild queue registry (DisTube.js) and the playback     *)
(* continuation protocol of the handler (DisTubeHandler.js).               *)
(*                                                                         *)
(* A Queue object is a record of `queues`; the registry `guildQueues` is   *)
(* the set of <<guild id, queue object>> entries of the Collection.  Every *)
(* handler is a function from a world (registry, queue objects, suspended  *)
(* async calls, emitted events) to the set of worlds it can leave behind   *)
(* when it next suspends at an `await` or returns; an action applies one   *)
(* handler to the current state and commits one of its outcomes.           *)
(*                                                                         *)
(* Queue.js is not part of the sources at hand: the Queue methods          *)
(* (constructor, addToQueue, skip, previous, stop, setRepeatMode,          *)
(* toggleAutoplay, addRelatedSong) follow the specification's section 4.2. *)
(***************************************************************************)
EXTENDS Integers, Sequences, FiniteSets, TLC

VARIABLES
  guildQueues,  \* DisTube#guildQueues: set of <<guild id, queue object id>>
  queues,       \* the Queue objects, by object identity
  tasks,        \* per Queue object: the async calls suspended at an await
  emitted,      \* the events emitted by the last step, in order
  last,         \* the last step: its operation, its Queue, what it consumed
  options,      \* DisTubeOptions, fixed at construction
  voice         \* per guild: the voice channel the client is or was in

vars == <<guildQueues, queues, tasks, emitted, last, options, voice>>

(***************************************************************************)
(* Bounds of the model.                                                    *)
(***************************************************************************)
MaxSongs == 3      \* longest pending list a play request still extends
MaxHistory == 2    \* longest history a continuation may leave behind

\* Queue object identities: the Queue a guild has registered and one that the
\* registry has dropped while its calls were still suspended.
QIds == {1, 2}
Guilds == {1}
GuildIds == {1, 2}            \* the guilds the client is a member of
RelatedIds == {2}             \* what a related-song lookup may find

\* undefined (songs[0] of an empty list, pop() of an empty list)
Undefined == 0

(***************************************************************************)
(* Queue objects.                                                          *)
(***************************************************************************)
\* A free slot of `queues`: no Queue object lives there.
NoQueue ==
  [id |-> 0, songs |-> <<>>, previousSongs |-> <<>>, stopped |-> FALSE,
   next |-> FALSE, prev |-> FALSE, repeatMode |-> 0, autoplay |-> FALSE,
   connection |-> "none", dispatcher |-> "none", stream |-> "none",
   orphans |-> 0, joins |-> 0, emptyTimeout |-> "none",
   errorEmitted |-> FALSE, timers |-> 0]

\* new Queue(distube, interaction, song, textChannel); song: a Song or an
\* array of Songs, here the sequence of its items
Queue(g, items) == [NoQueue EXCEPT !.id = g, !.songs = items]

\* The suspended async calls.
JoinTask(retried) == [kind |-> "join", retried |-> retried, emit |-> TRUE]
FetchTask(emit) == [kind |-> "fetch", retried |-> FALSE, emit |-> emit]
RelatedTask == [kind |-> "related", retried |-> FALSE, emit |-> FALSE]

Event(ev, q, s) == [ev |-> ev, q |-> q, s |-> s]

\* The world the handlers transform.
World ==
  [reg |-> guildQueues, qs |-> queues, ts |-> tasks, em |-> <<>>, drops |-> 0,
   leaked |-> FALSE, again |-> 0, starts |-> 0, vc |-> voice]

emit(w, ev, q, s) == [w EXCEPT !.em = Append(@, Event(ev, q, s))]

\* emitError(queue.textChannel, error): a Queue's text channel is taken to be
\* a TextChannel
emitError(w, q) == emit(w, "error", q, 0)

\* emitError(channel, error); channel: whether it is a TextChannel (without
\* one the error goes to the console and no event is emitted)
emitErrorTo(w, channel, q) == IF channel THEN emitError(w, q) ELSE w

AddTask(w, q, t) == [w EXCEPT !.ts[q] = Append(@, t)]

RemoveAt(seq, i) == SubSeq(seq, 1, i - 1) \o SubSeq(seq, i + 1, Len(seq))

DropTask(w, q, i) == [w EXCEPT !.ts[q] = RemoveAt(@, i)]

First(seq) == IF seq = <<>> THEN Undefined ELSE seq[1]

Shift(seq) == IF seq = <<>> THEN <<>> ELSE Tail(seq)

Pop(seq) == IF seq = <<>> THEN <<>> ELSE SubSeq(seq, 1, Len(seq) - 1)

\* Faulty variant of Last: the oldest entry instead of the most recent one.
Oldest(seq) == IF seq = <<>> THEN Undefined ELSE seq[1]

Last(seq) == IF seq = <<>> THEN Undefined ELSE seq[Len(seq)]

(***************************************************************************)
(* The registry.                                                           *)
(***************************************************************************)
\* a faulty variant: a guild without an entry is given some other guild's
getQueueAny(reg, g) ==
  IF \E p \in reg : p[1] = g THEN (CHOOSE p \in reg : p[1] = g)[2]
  ELSE IF reg # {} THEN (CHOOSE p \in reg : TRUE)[2] ELSE 0

\* getQueue: guildQueues.get(guildID); 0 when the guild has no entry
getQueue(reg, g) ==
  IF \E p \in reg : p[1] = g THEN (CHOOSE p \in reg : p[1] = g)[2] ELSE 0

\* guildQueues.set(id, queue)
RegistrySet(reg, g, q) == {p \in reg : p[1] # g} \cup {<<g, q>>}

\* guildQueues.delete(id)
RegistryDelete(reg, g) == {p \in reg : p[1] # g}

\* dispatcher.destroy(): a playing dispatcher ends without a terminal signal;
\* one that was ended before (end() was called) may still deliver its finish.
DestroyDispatcher(d) == IF d = "live" THEN "done" ELSE d

\* stream.destroy()
DestroyStream(s) == IF s = "open" THEN "destroyed" ELSE s

\* a faulty variant: the deletion forgets the stream
_deleteQueueKeepsStream(w, q) ==
  LET w1 == emit(w, "deleteQueue", q, 0)
  IN [w1 EXCEPT !.qs[q].dispatcher = DestroyDispatcher(@),
                !.reg = RegistryDelete(@, w.qs[q].id)]

\* _deleteQueue(queue), called with a Queue object
\* (`again` counts the destroy() calls on a stream handle destroyed before)
_deleteQueue(w, q) ==
  LET w1 == emit(w, "deleteQueue", q, 0)
  IN [w1 EXCEPT !.qs[q].dispatcher = DestroyDispatcher(@),
                !.qs[q].stream = DestroyStream(@),
                !.again = IF w.qs[q].stream = "destroyed" THEN @ + 1 ELSE @,
                !.reg = RegistryDelete(@, w.qs[q].id)]

(***************************************************************************)
(* Queue methods (specification 4.2).                                      *)
(***************************************************************************)
\* dispatcher.end(): forces the finish signal of a playing dispatcher
EndDispatcher(d) == IF d = "live" THEN "dying" ELSE d

\* connection.channel.leave()
Leave(c) == IF c = "ready" THEN "left" ELSE c

\* stop(): sets stopped, tears down stream and connection ownership; the
\* queue is then deleted by the registry.
stop(w, q) ==
  LET w1 == [w EXCEPT !.qs[q].stopped = TRUE,
                      !.qs[q].dispatcher = EndDispatcher(@),
                      !.qs[q].connection =
                         IF options.leaveOnStop THEN Leave(@) ELSE @]
  IN _deleteQueue(w1, q)

\* Faulty variant of addToQueue: with unshift the new items are put in front
\* of the whole list, the playing head included.
addToQueueFront(songs, items, unshift) ==
  IF unshift THEN items \o songs ELSE songs \o items

\* addToQueue(items, playImmediately): appends; with playImmediately the new
\* item goes right behind the current head.
addToQueue(songs, items, unshift) ==
  IF unshift /\ songs # <<>>
    THEN <<songs[1]>> \o items \o Tail(songs)
    ELSE songs \o items

\* skip(): marks skipRequested and forces the current stream to finish (a
\* playing dispatcher can finish at any moment, so the flag is the effect).
skip(w, q) == [w EXCEPT !.qs[q].next = TRUE]

\* previous(): marks previousRequested and forces the current stream to finish
previous(w, q) == [w EXCEPT !.qs[q].prev = TRUE]

\* setRepeatMode(mode | null), as DisTube#setRepeatMode documents it: null
\* (here -1) cycles 0 -> 1 -> 2 -> 0; an explicit mode is set, and "turn off
\* if repeat mode is the same value as new mode".
setRepeatMode(cur, mode) ==
  IF mode = -1 THEN (cur + 1) % 3
  ELSE IF cur = mode THEN 0 ELSE mode

(***************************************************************************)
(* The player (DisTubeHandler).                                            *)
(***************************************************************************)
RECURSIVE playSong(_, _, _), _handlePlayingError(_, _, _)

\* playSong, from createStream on: the stream is opened and handed to
\* connection.play, which returns the new dispatcher or throws.
StartStream(w, q, em) ==
  LET old == w.qs[q].dispatcher
      w1 == [w EXCEPT !.qs[q].dispatcher = "live",
                      !.qs[q].errorEmitted = FALSE,
                      !.starts = @ + 1,
                      !.qs[q].orphans = IF old = "live" THEN @ + 1 ELSE @,
                      !.again = IF w.qs[q].stream = "destroyed"
                                  THEN @ + 1 ELSE @,
                      !.qs[q].stream = "open"]
  IN IF em THEN emit(w1, "playSong", q, First(w.qs[q].songs)) ELSE w1

\* createStream reads songs[0] and connection.play needs a connection: without
\* either the call throws; with both it may still throw.  When it is
\* connection.play that throws, the stream createStream returned is nobody's
\* (`leaked` records it).
openStream(w, q, em) ==
  (IF w.qs[q].connection # "none" /\ w.qs[q].songs # <<>>
     THEN {StartStream(w, q, em)} ELSE {})
    \cup _handlePlayingError(w, q, TRUE)
    \cup (IF w.qs[q].songs # <<>>
            THEN _handlePlayingError([w EXCEPT !.leaked = TRUE], q, TRUE)
            ELSE {})

\* playSong(queue); em: whether the caller emits playSong when it returns false
playSong(w, q, em) ==
  IF w.qs[q].songs = <<>>
    THEN {_deleteQueue(w, q)}
    ELSE {AddTask(w, q, FetchTask(em))} \cup openStream(w, q, em)

\* Faulty variant of _handlePlayingError: any failure stops the queue, whether
\* or not items remain.
_handlePlayingErrorStops(w, q, error) ==
  LET w1 == [w EXCEPT !.qs[q].songs = Shift(@), !.drops = @ + 1]
  IN {stop(IF error THEN emitError(w1, q) ELSE w1, q)}

\* Faulty variant of _handlePlayingError: the next head is played without
\* 'playSong' being emitted for it.
_handlePlayingErrorQuiet(w, q, error) ==
  LET w1 == [w EXCEPT !.qs[q].songs = Shift(@), !.drops = @ + 1]
      w2 == IF error THEN emitError(w1, q) ELSE w1
  IN IF Len(w2.qs[q].songs) > 0
       THEN playSong(w2, q, FALSE)
       ELSE {stop(w2, q)}

\* _handlePlayingError(queue, error)
_handlePlayingError(w, q, error) ==
  LET w1 == [w EXCEPT !.qs[q].songs = Shift(@), !.drops = @ + 1]
      w2 == IF error THEN emitError(w1, q) ELSE w1
  IN IF Len(w2.qs[q].songs) > 0
       THEN playSong(w2, q, TRUE)
       ELSE {stop(w2, q)}

\* the stream's "error" handler of playSong
onStreamError(w, q) == emitError([w EXCEPT !.qs[q].errorEmitted = TRUE], q)

\* a faulty variant: the dispatcher's handler passes its error on whatever
\* the stream's handler did
playingErrorAlways(Q) == TRUE

\* errorEmitted ? null : e, as a truth value: whether _handlePlayingError is
\* given an error
playingError(Q) == ~Q.errorEmitted

\* _emitPlaySong(queue)
_emitPlaySong(Q) ==
  \/ ~options.emitNewSongOnly
  \/ /\ Q.repeatMode # 1
     /\ First(Q.songs) # First(Shift(Q.songs))

\* Faulty variant of HistoryEntry: the full item is kept whatever the
\* savePreviousSongs option says.
HistoryEntryFull(s) == s

\* What the finish continuation pushes to previousSongs: the item, or {id}
HistoryEntry(s) == IF options.savePreviousSongs THEN s ELSE 0 - s

\* Faulty variant of ContinueFinish: repeat-one keeps the head even when a
\* skip was requested.
ContinueFinishNoSkip(w, q) ==
  LET Q == w.qs[q]
      ep == _emitPlaySong(Q)
      popHead == ~Q.prev /\ Q.repeatMode # 1
      w1 == IF popHead
              THEN [w EXCEPT !.qs[q].songs = Shift(@),
                             !.qs[q].previousSongs =
                                Append(@, HistoryEntry(First(Q.songs)))]
              ELSE w
      w2 == [w1 EXCEPT !.qs[q].next = FALSE, !.qs[q].prev = FALSE]
  IN playSong(w2, q, ep)

\* Faulty variant of ContinueFinish: the head is popped under repeat-one
\* too.
ContinueFinishAlwaysPops(w, q) ==
  LET Q == w.qs[q]
      ep == _emitPlaySong(Q)
      popHead == ~Q.prev
      w1 == IF popHead
              THEN [w EXCEPT !.qs[q].songs = Shift(@),
                             !.qs[q].previousSongs =
                                Append(@, HistoryEntry(First(Q.songs)))]
              ELSE w
      w2 == [w1 EXCEPT !.qs[q].next = FALSE, !.qs[q].prev = FALSE]
  IN playSong(w2, q, ep)

\* Faulty variant of ContinueFinish: the head is never popped.
ContinueFinishKeepsHead(w, q) ==
  LET Q == w.qs[q]
      ep == _emitPlaySong(Q)
      w2 == [w EXCEPT !.qs[q].next = FALSE, !.qs[q].prev = FALSE]
  IN playSong(w2, q, ep)

\* _handleSongFinish from the emitPlaySong computation on (lines 349-360)
ContinueFinish(w, q) ==
  LET Q == w.qs[q]
      ep == _emitPlaySong(Q)
      popHead == ~Q.prev /\ (Q.repeatMode # 1 \/ Q.next)
      w1 == IF popHead
              THEN [w EXCEPT !.qs[q].songs = Shift(@),
                             !.qs[q].previousSongs =
                                Append(@, HistoryEntry(First(Q.songs)))]
              ELSE w
      w2 == [w1 EXCEPT !.qs[q].next = FALSE, !.qs[q].prev = FALSE]
  IN playSong(w2, q, ep)

\* Faulty variant of FinishOrContinue: the exhaustion test is off by one
\* (songs.length < 1), so the last item is shifted like any other.
FinishOrContinueOffByOne(w, q) ==
  LET Q == w.qs[q] IN
  IF Len(Q.songs) < 1
    THEN LET w1 == IF options.leaveOnFinish
                     THEN [w EXCEPT !.qs[q].connection = Leave(@)] ELSE w
             w2 == IF ~Q.autoplay THEN emit(w1, "finish", q, 0) ELSE w1
         IN {_deleteQueue(w2, q)}
    ELSE ContinueFinish(w, q)

\* _handleSongFinish after the related-song attempt (lines 342-348)
FinishOrContinue(w, q) ==
  LET Q == w.qs[q] IN
  IF Len(Q.songs) <= 1
    THEN LET w1 == IF options.leaveOnFinish
                     THEN [w EXCEPT !.qs[q].connection = Leave(@)] ELSE w
             w2 == IF ~Q.autoplay THEN emit(w1, "finish", q, 0) ELSE w1
         IN {_deleteQueue(w2, q)}
    ELSE ContinueFinish(w, q)

\* Faulty variant of _handleSongFinish: a previous request takes the new head
\* from the history under repeat-all too.
_handleSongFinishNoRotate(w, q) ==
  LET Q == w.qs[q]
      w0 == emit(w, "finishSong", q, First(Q.songs))
  IN IF Q.stopped
       THEN {_deleteQueue(w0, q)}
       ELSE
         LET s1 == IF Q.repeatMode = 2 /\ ~Q.prev
                     THEN Append(Q.songs, First(Q.songs)) ELSE Q.songs
             s2 == IF Q.prev
                     THEN <<Last(Q.previousSongs)>> \o s1
                     ELSE s1
             h2 == IF Q.prev
                     THEN Pop(Q.previousSongs) ELSE Q.previousSongs
             w1 == [w0 EXCEPT !.qs[q].songs = s2, !.qs[q].previousSongs = h2]
         IN IF Len(s2) <= 1 /\ (Q.next \/ Q.repeatMode = 0)
              THEN IF Q.autoplay
                     THEN {AddTask(w1, q, RelatedTask)}
                     ELSE FinishOrContinue(w1, q)
              ELSE ContinueFinish(w1, q)

\* _handleSongFinish(queue), up to its first await
_handleSongFinish(w, q) ==
  LET Q == w.qs[q]
      w0 == emit(w, "finishSong", q, First(Q.songs))
  IN IF Q.stopped
       THEN {_deleteQueue(w0, q)}
       ELSE
         LET s1 == IF Q.repeatMode = 2 /\ ~Q.prev
                     THEN Append(Q.songs, First(Q.songs)) ELSE Q.songs
             s2 == IF Q.prev
                     THEN IF Q.repeatMode = 2
                            THEN <<Last(s1)>> \o Pop(s1)
                            ELSE <<Last(Q.previousSongs)>> \o s1
                     ELSE s1
             h2 == IF Q.prev /\ Q.repeatMode # 2
                     THEN Pop(Q.previousSongs) ELSE Q.previousSongs
             w1 == [w0 EXCEPT !.qs[q].songs = s2, !.qs[q].previousSongs = h2]
         IN IF Len(s2) <= 1 /\ (Q.next \/ Q.repeatMode = 0)
              THEN IF Q.autoplay
                     THEN {AddTask(w1, q, RelatedTask)}
                     ELSE FinishOrContinue(w1, q)
              ELSE ContinueFinish(w1, q)

\* Faulty variant of joinVoiceChannel: a failed join is retried every time.
joinVoiceChannelRetries(w, q, i, ok) ==
  LET w0 == DropTask(w, q, i)
  IN IF ok
       THEN LET w1 == [w0 EXCEPT !.qs[q].connection = "ready"]
            IN playSong(emit(w1, "connect", q, 0), q, TRUE)
       ELSE LET w1 == _deleteQueue(w0, q)
            IN {AddTask([w1 EXCEPT !.qs[q].joins = @ + 1], q,
                        JoinTask(FALSE))}

\* joinVoiceChannel(queue, voice, retried), resumed when voice.join() settles
joinVoiceChannel(w, q, i, ok) ==
  LET t == w.ts[q][i]
      w0 == DropTask(w, q, i)
  IN IF ok
       THEN LET w1 == [w0 EXCEPT !.qs[q].connection = "ready"]
            IN playSong(emit(w1, "connect", q, 0), q, TRUE)
       ELSE LET w1 == _deleteQueue(w0, q)
            IN IF t.retried
                 THEN {emitError(w1, q)}
                 ELSE {AddTask([w1 EXCEPT !.qs[q].joins = @ + 1], q,
                               JoinTask(TRUE))}

\* playSong resumed when the metadata fetch settles
playSongResume(w, q, i, ok) ==
  LET t == w.ts[q][i]
      w0 == DropTask(w, q, i)
  IN IF ok THEN openStream(w0, q, t.emit)
           ELSE _handlePlayingError(w0, q, TRUE)

\* Faulty variant of relatedResume: a failed lookup is not signalled.
relatedResumeSilent(w, q, i, r) ==
  LET w0 == DropTask(w, q, i)
      w1 == IF r = Undefined
              THEN w0
              ELSE [w0 EXCEPT !.qs[q].songs = Append(@, r)]
  IN FinishOrContinue(w1, q)

\* Faulty variant of relatedResume: the item that was found is not appended.
relatedResumeDrops(w, q, i, r) ==
  LET w0 == DropTask(w, q, i)
      w1 == IF r = Undefined THEN emit(w0, "noRelated", q, 0) ELSE w0
  IN FinishOrContinue(w1, q)

\* _handleSongFinish resumed when queue.addRelatedSong() settles; r is the
\* related item it appended, Undefined when it threw
relatedResume(w, q, i, r) ==
  LET w0 == DropTask(w, q, i)
      w1 == IF r = Undefined
              THEN emit(w0, "noRelated", q, 0)
              ELSE [w0 EXCEPT !.qs[q].songs = Append(@, r)]
  IN FinishOrContinue(w1, q)

\* a faulty variant: the handler marks the queue stopped and deletes nothing
stopOnly(w, q) == {[w EXCEPT !.qs[q].stopped = TRUE]}

\* try { queue.stop() } catch { this.deleteQueue(queue) } of the connection's
\* handlers: stop() does its work, or throws and the queue is deleted directly
stopOrDelete(w, q) == {stop(w, q), _deleteQueue(w, q)}

\* connection.on("disconnect")
onDisconnect(w, q) ==
  stopOrDelete(emit([w EXCEPT !.qs[q].connection = "left"],
                    "disconnect", q, 0), q)

\* connection.on("error")
onConnectionError(w, q) == stopOrDelete(emitError(w, q), q)

\* guild.me.voice.channel: the client is in a voice channel of the guild
\* while a Queue object of the guild holds a ready connection
clientChannel(w, g) ==
  \E q \in QIds : w.qs[q].id = g /\ w.qs[q].connection = "ready"

\* isVoiceChannelEmpty(voiceState)
isVoiceChannelEmpty(w, g) == clientChannel(w, g) /\ ~w.vc[g].occupied

\* guild.me.voice.channel.leave()
leaveChannel(w, g) ==
  [w EXCEPT !.qs = [q \in QIds |->
                      IF w.qs[q].id = g
                        THEN [w.qs[q] EXCEPT !.connection = Leave(@)]
                        ELSE w.qs[q]]]

\* Faulty variant of clearEmptyTimeout: the handle is forgotten and the timer
\* it refers to stays pending.
forgetEmptyTimeout(Q) == [Q EXCEPT !.emptyTimeout = "none"]

\* lines 125-128: clearTimeout(queue.emptyTimeout) cancels the pending timer
\* the handle refers to; timers counts the Queue's pending timers
clearEmptyTimeout(Q) ==
  [Q EXCEPT !.timers = IF Q.emptyTimeout = "armed" THEN @ - 1 ELSE @,
            !.emptyTimeout = "none"]

\* client.on("voiceStateUpdate"); old: oldState.channel is set
onVoiceStateUpdate(w, g, old) ==
  LET q == getQueue(w.reg, g)
  IN IF ~old THEN w
     ELSE IF q = 0
       THEN IF isVoiceChannelEmpty(w, g)
              THEN [w EXCEPT !.vc[g].timeout = TRUE] ELSE w
       ELSE LET w1 == [w EXCEPT !.qs[q] = clearEmptyTimeout(@)]
            IN IF isVoiceChannelEmpty(w1, g)
                 THEN [w1 EXCEPT !.qs[q].emptyTimeout = "armed",
                                 !.qs[q].timers = @ + 1]
                 ELSE w1

\* Faulty variant of onEmptyTimeout: the callback does not look at the
\* channel again.
onEmptyTimeoutUnchecked(w, q) ==
  LET g == w.qs[q].id
      w1 == [w EXCEPT !.qs[q].emptyTimeout = "none", !.qs[q].timers = @ - 1]
  IN _deleteQueue(emit(leaveChannel(w1, g), "empty", q, 0), q)

\* the callback of queue.emptyTimeout
onEmptyTimeout(w, q) ==
  LET g == w.qs[q].id
      w1 == [w EXCEPT !.qs[q].emptyTimeout = "none", !.qs[q].timers = @ - 1]
  IN IF isVoiceChannelEmpty(w1, g)
       THEN _deleteQueue(emit(leaveChannel(w1, g), "empty", q, 0), q)
       ELSE w1

\* the callback of a timeout set for a guild without a Queue
onGuildTimeout(w, g) ==
  IF getQueue(w.reg, g) = 0 /\ isVoiceChannelEmpty(w, g)
    THEN leaveChannel(w, g) ELSE w

\* Faulty variant of validJump: one position past the last pending item is
\* accepted.
validJumpPastEnd(Q, n) ==
  /\ n # 0
  /\ n <= Len(Q.songs)
  /\ 0 - n <= Len(Q.previousSongs)

\* jump(n) is valid for n # 0 within [-history.length, pending.length - 1]
validJump(Q, n) ==
  /\ n # 0
  /\ n <= Len(Q.songs) - 1
  /\ 0 - n <= Len(Q.previousSongs)

\* jump(n) with a valid n.  n > 0: the n - 1 items in front go to the
\* history and the skip is requested, so that the finish that follows pops
\* one more and plays the nth.  n < 0: the |n| - 1 most recent history
\* entries return to the front of pending and previous is requested, so that
\* the finish that follows brings back the |n|-th.
jump(w, q, n) ==
  LET Q == w.qs[q]
      h == Len(Q.previousSongs)
  IN IF n > 0
       THEN [w EXCEPT !.qs[q].songs = SubSeq(Q.songs, n, Len(Q.songs)),
                      !.qs[q].previousSongs =
                         @ \o [i \in 1 .. n - 1 |-> HistoryEntry(Q.songs[i])],
                      !.qs[q].next = TRUE]
       ELSE [w EXCEPT !.qs[q].songs =
                         SubSeq(Q.previousSongs, h + n + 2, h) \o @,
                      !.qs[q].previousSongs = SubSeq(@, 1, h + n + 1),
                      !.qs[q].prev = TRUE]

(***************************************************************************)
(* The registry's command surface (DisTube).                               *)
(***************************************************************************)
\* Faulty variant of _newQueue: the voice channel is joined twice.
_newQueueJoinsTwice(w, g, items, n) ==
  LET w1 == [w EXCEPT !.qs[n] = [Queue(g, items) EXCEPT !.joins = 1]]
      w2 == emit(w1, "initQueue", n, 0)
      w3 == [w2 EXCEPT !.reg = RegistrySet(@, g, n)]
  IN AddTask(AddTask(w3, n, JoinTask(FALSE)), n, JoinTask(FALSE))

\* _newQueue(interaction, song, textChannel); n is the new Queue object
_newQueue(w, g, items, n) ==
  LET w1 == [w EXCEPT !.qs[n] = [Queue(g, items) EXCEPT !.joins = 1]]
      w2 == emit(w1, "initQueue", n, 0)
      w3 == [w2 EXCEPT !.reg = RegistrySet(@, g, n)]
  IN AddTask(w3, n, JoinTask(FALSE))

\* handlePlaylist from the queue lookup on (lines 146-155)
handlePlaylist(w, g, items, sk, n) ==
  LET q == getQueue(w.reg, g) IN
  IF q # 0
    THEN LET w1 == [w EXCEPT !.qs[q].songs = addToQueue(@, items, sk)]
         IN IF sk THEN skip(w1, q) ELSE emit(w1, "addList", q, 0)
    ELSE _newQueue(w, g, items, n)

\* Faulty variant of playVoiceChannel: with skip the new item is played at
\* once instead of waiting for the current stream to end.
playVoiceChannelPlaysNow(w, g, items, sk, n) ==
  LET q == getQueue(w.reg, g) IN
  IF Len(items) > 1
    THEN handlePlaylist(w, g, items, sk, n)
    ELSE IF q # 0
      THEN LET w1 == [w EXCEPT !.qs[q].songs = addToQueue(@, items, sk)]
           IN IF sk THEN StartStream(skip(w1, q), q, TRUE)
                    ELSE emit(w1, "addSong", q, items[1])
      ELSE _newQueue(w, g, items, n)

\* playVoiceChannel once the song is resolved (lines 238-250): a Playlist
\* (several items) goes to handlePlaylist, a Song is added or starts a queue
playVoiceChannel(w, g, items, sk, n) ==
  LET q == getQueue(w.reg, g) IN
  IF Len(items) > 1
    THEN handlePlaylist(w, g, items, sk, n)
    ELSE IF q # 0
      THEN LET w1 == [w EXCEPT !.qs[q].songs = addToQueue(@, items, sk)]
           IN IF sk THEN skip(w1, q) ELSE emit(w1, "addSong", q, items[1])
      ELSE _newQueue(w, g, items, n)

\* The commands of the registry that change a Queue; each looks the guild's
\* Queue up, throws without one and calls the Queue's method otherwise.
Mutators ==
  {"pause", "resume", "stop", "setVolume", "skip", "previous", "shuffle",
   "jump", "setRepeatMode", "toggleAutoplay", "setFilter", "seek"}

\* those whose Queue method is part of the model
QueueMethods == {"stop", "skip", "previous", "setRepeatMode", "toggleAutoplay"}

queueMethod(w, q, name) ==
  CASE name = "stop" -> stop(w, q)
    [] name = "skip" -> skip(w, q)
    [] name = "previous" -> previous(w, q)
    [] name = "setRepeatMode" ->
         [w EXCEPT !.qs[q].repeatMode = setRepeatMode(@, 0 - 1)]
    [] name = "toggleAutoplay" -> [w EXCEPT !.qs[q].autoplay = ~@]

\* a faulty variant: the rejected request is dropped without a word
playRejectedSilent(w, g, channel) == w

\* the catch of play / playVoiceChannel when the resolution of the request
\* throws; channel: whether the request came with a text channel
playRejected(w, g, channel) == emitErrorTo(w, channel, getQueue(w.reg, g))

\* What the user answers to a 'searchResult': nothing before the cooldown
\* ends, something that is no index of a result, or an index of a result.
Answers == {"none", "invalid", "valid"}

\* searchSong(interaction, query); found: the search has results.  The result
\* is a world and what is returned: a search result ("song") or null.
searchSong(w, found, answer) ==
  IF ~found
    THEN [w |-> emit(w, "searchNoResult", 0, 0), r |-> "null"]
    ELSE IF options.searchSongs > 1
      THEN LET w1 == emit(w, "searchResult", 0, 0)
           IN IF answer = "valid"
                THEN [w |-> emit(w1, "searchDone", 0, 0), r |-> "song"]
                ELSE [w |-> emit(w1, "searchCancel", 0, 0), r |-> "null"]
      ELSE [w |-> w, r |-> "song"]

\* resolveSong(interaction || member, song) for a search string; member: no
\* interaction was given, DisTube#search is called and throws "No result!"
\* when it finds nothing
resolveQuery(w, member, found, answer) ==
  IF member
    THEN [w |-> w, r |-> IF found THEN "song" ELSE "throws"]
    ELSE searchSong(w, found, answer)

\* playVoiceChannel with a search string that resolves to item s, if at all
playQuery(w, g, s, member, found, answer, channel, n) ==
  LET res == resolveQuery(w, member, found, answer)
  IN CASE res.r = "song" -> playVoiceChannel(res.w, g, <<s>>, FALSE, n)
       [] res.r = "null" -> res.w
       [] res.r = "throws" -> playRejected(res.w, g, channel)

\* the search or the selection yields nothing
yieldsNothing(member, found, answer) ==
  \/ ~found
  \/ ~member /\ options.searchSongs > 1 /\ answer # "valid"

\* song.age_restricted: the items the source marks as age-restricted
age_restricted(s) == s = 3

\* handlePlaylist, lines 137-139: the playlist is filtered when the nsfw
\* option is ON and the text channel is not NSFW
filterPlaylist(songs, nsfwChannel) ==
  IF options.nsfw /\ ~nsfwChannel
    THEN SelectSeq(songs, LAMBDA s : ~age_restricted(s))
    ELSE songs

\* playVoiceChannel from the resolved song on (lines 238-250) with
\* handlePlaylist (lines 131-156): a playlist is filtered and rejected when
\* nothing is left, a single song is rejected when it is age-restricted, the
\* nsfw option is off and the text channel is not NSFW.
playResolved(w, g, items, playlist, sk, nsfwChannel, n) ==
  IF playlist
    THEN LET songs == filterPlaylist(items, nsfwChannel)
         IN IF songs = <<>>
              THEN playRejected(w, g, TRUE)
              ELSE handlePlaylist(w, g, songs, sk, n)
    ELSE IF ~options.nsfw /\ age_restricted(items[1]) /\ ~nsfwChannel
      THEN playRejected(w, g, TRUE)
      ELSE playVoiceChannel(w, g, <<items[1]>>, sk, n)

\* Faulty variant of tryPlugins: every plugin is asked to validate before
\* the first that accepted resolves.
tryPluginsAll(w, url, i) ==
  LET P == options.plugins
      w1 == [w EXCEPT !.em = @ \o [k \in 1 .. Len(P) - i + 1 |->
                                     Event("validate", 0, i + k - 1)]]
      ok == {k \in i .. Len(P) : url \in P[k]}
  IN IF ok = {}
       THEN [w |-> w1, r |-> 0]
       ELSE LET f == CHOOSE k \in ok : \A m \in ok : k <= m
            IN [w |-> emit(w1, "resolve", 0, f), r |-> f]

\* resolveSong, line 72: the extractor plugins are asked in registration
\* order, from plugin i on; the first whose validate accepts the URL
\* resolves it.  A plugin is the set of URLs it validates; the calls made to
\* plugins are logged with the events.  r: the plugin that resolved, 0 when
\* none validated.
RECURSIVE tryPlugins(_, _, _)
tryPlugins(w, url, i) ==
  IF i > Len(options.plugins)
    THEN [w |-> w, r |-> 0]
    ELSE LET w1 == emit(w, "validate", 0, i)
         IN IF url \in options.plugins[i]
              THEN [w |-> emit(w1, "resolve", 0, i), r |-> i]
              ELSE tryPlugins(w1, url, i + 1)

\* playVoiceChannel with a URL that is not native: resolveSong lines 71-74,
\* then the song the plugin resolved (named after the plugin) is queued, or
\* "Not Supported URL!" is thrown and surfaces as in playRejected.
playURL(w, g, url, channel, n) ==
  LET res == tryPlugins(w, url, 1)
  IN IF res.r = 0
       THEN playRejected(res.w, g, channel)
       ELSE playVoiceChannel(res.w, g, <<res.r>>, FALSE, n)

(***************************************************************************)
(* State, steps.                                                           *)
(***************************************************************************)
\* DisTubeOptions defaults
DefaultOptions ==
  [emitNewSongOnly |-> FALSE, leaveOnFinish |-> FALSE, leaveOnStop |-> TRUE,
   savePreviousSongs |-> TRUE, leaveOnEmpty |-> TRUE, searchSongs |-> 0,
   nsfw |-> FALSE, plugins |-> <<>>]

OptionSets == {DefaultOptions}

\* with and without leaveOnStop
StopOptionSets ==
  {[DefaultOptions EXCEPT !.leaveOnStop = b] : b \in BOOLEAN}

\* A guild's voice channel as the client sees it: whether a member who is
\* not a bot is in it, and whether a timeout set for a guild without a Queue
\* is pending.  Someone is in the channel when the client is constructed.
NoVoice == [g \in GuildIds |-> [occupied |-> TRUE, timeout |-> FALSE]]

\* searchSongs: the first result is played, or the user selects among two
SearchOptionSets ==
  {[DefaultOptions EXCEPT !.searchSongs = n] : n \in {0, 2}}

\* with the nsfw option off and on
NsfwOptionSets ==
  {[DefaultOptions EXCEPT !.nsfw = b] : b \in BOOLEAN}

\* registrations of extractor plugins, each the set of URLs it validates
PluginOptionSets ==
  {[DefaultOptions EXCEPT !.plugins = p] :
     p \in {<<{2}, {2, 3}>>, <<{2, 3}, {3}, {2}>>}}

\* with and without savePreviousSongs
HistoryOptionSets ==
  {[DefaultOptions EXCEPT !.savePreviousSongs = b] : b \in BOOLEAN}

\* with and without emitNewSongOnly
NewSongOptionSets ==
  {[DefaultOptions EXCEPT !.emitNewSongOnly = b] : b \in BOOLEAN}

Step(op, q, n, p, d) ==
  [op |-> op, q |-> q, next |-> n, prev |-> p, drops |-> d,
   leaked |-> FALSE, again |-> 0, starts |-> 0, guild |-> 0]

Registered(q) == <<queues[q].id, q>> \in guildQueues

\* A Queue object nothing refers to any more: not registered, no suspended
\* call, no dispatcher that can still signal.
Garbage(q) ==
  /\ queues[q].id # 0
  /\ ~Registered(q)
  /\ tasks[q] = <<>>
  /\ queues[q].dispatcher \notin {"live", "dying"}
  /\ queues[q].orphans = 0
  /\ queues[q].timers = 0

NoGarbage == \A q \in QIds : ~Garbage(q)

FreeSlots == {n \in QIds : queues[n].id = 0}

Bounded(w) ==
  \A q \in QIds : /\ Len(w.qs[q].songs) <= MaxSongs
                  /\ Len(w.qs[q].previousSongs) <= MaxHistory

\* A command of the registry's surface: it leaves no trace in `last`.
Command == "command"

\* g: the guild a command was called for, where the step records it
CommitFor(w, op, q, g) ==
  /\ Bounded(w)
  /\ guildQueues' = w.reg
  /\ queues' = w.qs
  /\ tasks' = w.ts
  /\ emitted' = w.em
  /\ last' = LET s ==
              IF op = Command \/ q = 0
              THEN Step(op, 0, FALSE, FALSE, 0)
              ELSE [Step(op, q, queues[q].next, queues[q].prev, w.drops)
                      EXCEPT !.leaked = w.leaked, !.again = w.again,
                             !.starts = w.starts]
                IN [s EXCEPT !.guild = g]
  /\ voice' = w.vc
  /\ UNCHANGED options

Commit(w, op, q) == CommitFor(w, op, q, 0)

\* new DisTube(client, otp): no queue, nothing in flight
Init ==
  /\ guildQueues = {}
  /\ queues = [q \in QIds |-> NoQueue]
  /\ tasks = [q \in QIds |-> <<>>]
  /\ emitted = <<>>
  /\ last = Step("init", 0, FALSE, FALSE, 0)
  /\ voice = NoVoice
  /\ options \in OptionSets

InitStop ==
  /\ guildQueues = {}
  /\ queues = [q \in QIds |-> NoQueue]
  /\ tasks = [q \in QIds |-> <<>>]
  /\ emitted = <<>>
  /\ last = Step("init", 0, FALSE, FALSE, 0)
  /\ voice = NoVoice
  /\ options \in StopOptionSets

InitSearch ==
  /\ guildQueues = {}
  /\ queues = [q \in QIds |-> NoQueue]
  /\ tasks = [q \in QIds |-> <<>>]
  /\ emitted = <<>>
  /\ last = Step("init", 0, FALSE, FALSE, 0)
  /\ voice = NoVoice
  /\ options \in SearchOptionSets

InitNewSongOnly ==
  /\ guildQueues = {}
  /\ queues = [q \in QIds |-> NoQueue]
  /\ tasks = [q \in QIds |-> <<>>]
  /\ emitted = <<>>
  /\ last = Step("init", 0, FALSE, FALSE, 0)
  /\ voice = NoVoice
  /\ options \in NewSongOptionSets

\* What pending may hold when playSong is called, the empty list included.
PendingLists == {<<>>, <<1>>, <<1, 2>>}

\* A registered Queue that has joined its channel and plays nothing yet.
InitPlaySong ==
  /\ guildQueues = {<<1, 1>>}
  /\ \E items \in PendingLists :
       queues = [q \in QIds |->
                  IF q = 1 THEN [Queue(1, items) EXCEPT !.connection = "ready",
                                                        !.joins = 1]
                           ELSE NoQueue]
  /\ tasks = [q \in QIds |-> <<>>]
  /\ emitted = <<>>
  /\ last = Step("init", 0, FALSE, FALSE, 0)
  /\ voice = NoVoice
  /\ options \in OptionSets

\* The garbage collector frees an unreferenced Queue object.
Collect(q) ==
  /\ Garbage(q)
  /\ queues' = [queues EXCEPT ![q] = NoQueue]
  /\ emitted' = <<>>
  /\ last' = Step("collect", q, FALSE, FALSE, 0)
  /\ UNCHANGED <<guildQueues, tasks, options, voice>>

\* play / playVoiceChannel with a resolved song or playlist; the new Queue
\* object, if one is made, takes the first free slot among `slots`
Play(g, items, sk, slots, cap) ==
  /\ NoGarbage
  /\ LET q == getQueue(guildQueues, g)
         free == FreeSlots \cap slots
     IN IF q # 0
       THEN /\ Len(queues[q].songs) + Len(items) <= cap
            /\ Commit(playVoiceChannel(World, g, items, sk, 0), Command, q)
       ELSE /\ free # {}
            /\ LET n == CHOOSE n \in free : \A m \in free : n <= m
               IN Commit(playVoiceChannel(World, g, items, sk, n),
                         "newQueue", n)

\* play / playVoiceChannel with a search string
PlayQuery(g, s, member, found, answer, channel) ==
  /\ NoGarbage
  /\ LET q == getQueue(guildQueues, g)
         n == IF FreeSlots = {} THEN 0
              ELSE CHOOSE n \in FreeSlots : \A m \in FreeSlots : n <= m
         w == playQuery(World, g, s, member, found, answer, channel, n)
     IN /\ q = 0 => n # 0
        /\ q # 0 => Len(queues[q].songs) < MaxSongs
        /\ IF yieldsNothing(member, found, answer)
             THEN CommitFor(w, "searchNothing", 0, g)
             ELSE IF q # 0 THEN Commit(w, Command, q)
                           ELSE Commit(w, "newQueue", n)

\* play / playVoiceChannel with a request whose resolution throws
PlayRejects(g, channel) ==
  /\ NoGarbage
  /\ Commit(playRejected(World, g, channel),
            IF channel THEN "playError" ELSE "playErrorNoChannel", 0)

\* play / playVoiceChannel with a resolved song or playlist, called from a
\* text channel that is NSFW or not; the step records which.
PlayResolved(g, items, playlist, sk, nsfwChannel) ==
  /\ NoGarbage
  /\ LET q == getQueue(guildQueues, g)
         n == IF FreeSlots = {} THEN 0
              ELSE CHOOSE n \in FreeSlots : \A m \in FreeSlots : n <= m
         w == playResolved(World, g, items, playlist, sk, nsfwChannel, n)
     IN /\ q = 0 => n # 0
        /\ CommitFor(w, IF nsfwChannel THEN "playNsfwChannel"
                                       ELSE "playPlainChannel", 0, g)

\* The highest identifier among the items a Queue holds or has played, when
\* items are numbered in the order they are added.
newest(Q) ==
  LET ids == {Q.songs[i] : i \in DOMAIN Q.songs}
               \cup {Q.previousSongs[i] : i \in DOMAIN Q.previousSongs}
               \cup {0 - Q.previousSongs[i] : i \in DOMAIN Q.previousSongs}
               \cup {0}
  IN CHOOSE m \in ids : \A i \in ids : i <= m

\* play / playVoiceChannel for a guild that has a Queue with a playing head:
\* k new items, numbered in insertion order, added with or without skip
\* (one item through playVoiceChannel lines 242-247, several through
\* handlePlaylist lines 146-150).
AddSongs(g, k, sk) ==
  /\ NoGarbage
  /\ LET q == getQueue(guildQueues, g)
     IN /\ q # 0
        /\ queues[q].songs # <<>>
        /\ Len(queues[q].songs) + k <= MaxSongs
        /\ LET items == [i \in 1 .. k |-> newest(queues[q]) + i]
           IN Commit(playVoiceChannel(World, g, items, sk, 0),
                     IF sk THEN "addToQueueSkip" ELSE "addToQueue", q)

\* The name a step carries for a play request with URL url
UrlOp(url) == "playUrl" \o ToString(url)

\* play / playVoiceChannel with a URL that is not native
PlayURL(g, url) ==
  /\ NoGarbage
  /\ LET q == getQueue(guildQueues, g)
         n == IF FreeSlots = {} THEN 0
              ELSE CHOOSE n \in FreeSlots : \A m \in FreeSlots : n <= m
     IN /\ q = 0 => n # 0
        /\ CommitFor(playURL(World, g, url, TRUE, n), UrlOp(url), 0, g)

\* playSong(queue), called for a registered Queue that plays nothing
PlaySong(q) ==
  /\ NoGarbage
  /\ Registered(q)
  /\ queues[q].dispatcher = "none" /\ tasks[q] = <<>>
  /\ \E w \in playSong(World, q, FALSE) : Commit(w, "playSong", q)

\* voice.join() resolves
JoinResolves(q, i) ==
  /\ NoGarbage
  /\ i \in DOMAIN tasks[q]
  /\ tasks[q][i].kind = "join"
  /\ \E w \in joinVoiceChannel(World, q, i, TRUE) : Commit(w, "joinOk", q)

\* voice.join() rejects
JoinRejects(q, i) ==
  /\ NoGarbage
  /\ i \in DOMAIN tasks[q]
  /\ tasks[q][i].kind = "join"
  /\ \E w \in joinVoiceChannel(World, q, i, FALSE) : Commit(w, "joinFail", q)

\* getYouTubeInfo / the plugin's getStreamURL settles
FetchSettles(q, i, ok) ==
  /\ NoGarbage
  /\ i \in DOMAIN tasks[q]
  /\ tasks[q][i].kind = "fetch"
  /\ \E w \in playSongResume(World, q, i, ok) :
       Commit(w, IF ok THEN "fetchOk" ELSE "fetchFail", q)

\* queue.addRelatedSong() settles
RelatedSettles(q, i, r) ==
  /\ NoGarbage
  /\ i \in DOMAIN tasks[q]
  /\ tasks[q][i].kind = "related"
  /\ \E w \in relatedResume(World, q, i, r) :
       Commit(w, IF r = Undefined THEN "relatedFail" ELSE "relatedOk", q)

\* The dispatchers of Queue q that can still signal, each with the world in
\* which it has signalled.
Signalling(q, states) ==
  (IF queues[q].dispatcher \in states
     THEN {[World EXCEPT !.qs[q].dispatcher = "done"]} ELSE {})
  \cup (IF queues[q].orphans > 0
          THEN {[World EXCEPT !.qs[q].orphans = @ - 1]} ELSE {})

\* the dispatcher's "finish" event
DispatcherFinish(q) ==
  /\ NoGarbage
  /\ \E w0 \in Signalling(q, {"live", "dying"}) :
       \E w \in _handleSongFinish(w0, q) : Commit(w, "finish", q)

\* the dispatcher's "error" event
DispatcherError(q) ==
  /\ NoGarbage
  /\ \E w0 \in Signalling(q, {"live"}) :
       \E w \in _handlePlayingError(w0, q, playingError(queues[q])) :
         Commit(w, "error", q)

\* the "error" event of the stream that is playing
StreamError(q) ==
  /\ NoGarbage
  /\ queues[q].stream = "open" /\ queues[q].dispatcher = "live"
  /\ ~queues[q].errorEmitted
  /\ Commit(onStreamError(World, q), "streamError", q)

\* A dispatcher ended and destroyed by stop() never delivers its finish.
DispatcherDrop(q) ==
  /\ NoGarbage
  /\ queues[q].dispatcher = "dying"
  /\ Commit([World EXCEPT !.qs[q].dispatcher = "done"], "drop", q)

\* the voice connection's "disconnect" event; the handlers are attached once
\* voice.join() has resolved
ConnectionDisconnect(q) ==
  /\ NoGarbage
  /\ queues[q].connection = "ready"
  /\ \E w \in onDisconnect(World, q) : Commit(w, "disconnect", q)

\* the voice connection's "error" event
ConnectionError(q) ==
  /\ NoGarbage
  /\ queues[q].connection = "ready"
  /\ \E w \in onConnectionError(World, q) : Commit(w, "connectionError", q)

\* the last member leaves the client's voice channel
MemberLeaves(g) ==
  /\ NoGarbage
  /\ options.leaveOnEmpty
  /\ voice[g].occupied
  /\ CommitFor(onVoiceStateUpdate([World EXCEPT !.vc[g].occupied = FALSE],
                                  g, TRUE),
               "memberLeaves", 0, g)

\* a member joins the client's voice channel; moved: from another channel
MemberJoins(g, moved) ==
  /\ NoGarbage
  /\ options.leaveOnEmpty
  /\ ~voice[g].occupied
  /\ CommitFor(onVoiceStateUpdate([World EXCEPT !.vc[g].occupied = TRUE],
                                  g, moved),
               IF moved THEN "memberMoves" ELSE "memberJoins", 0, g)

\* a voice state of the guild changes outside the client's channel
VoiceStateUpdate(g) ==
  /\ NoGarbage
  /\ options.leaveOnEmpty
  /\ CommitFor(onVoiceStateUpdate(World, g, TRUE), "voiceStateUpdate", 0, g)

\* queue.emptyTimeout expires
EmptyTimeout(q) ==
  /\ NoGarbage
  /\ queues[q].timers > 0
  /\ Commit(onEmptyTimeout(World, q), "emptyTimeout", q)

\* a timeout set for a guild without a Queue expires; others may be pending
GuildTimeout(g, more) ==
  /\ NoGarbage
  /\ voice[g].timeout
  /\ Commit([onGuildTimeout(World, g) EXCEPT !.vc[g].timeout = more],
            "guildTimeout", 0)

\* a command of Mutators called for guild g: it throws "Cannot find the
\* playing queue." when the guild has no Queue; methods: the Queue methods
\* that are called in this composition
Mutator(g, name, methods) ==
  /\ NoGarbage
  /\ LET q == getQueue(guildQueues, g) IN
     IF q = 0
       THEN CommitFor(World, "throws", 0, g)
       ELSE /\ name \in QueueMethods \cap methods
            /\ name = "previous" => queues[q].previousSongs # <<>>
            /\ CommitFor(queueMethod(World, q, name), "mutator", q, g)

\* DisTube#skip
Skip(g) ==
  /\ NoGarbage
  /\ LET q == getQueue(guildQueues, g) IN
     /\ q # 0
     /\ Commit(skip(World, q), Command, q)

\* DisTube#previous
Previous(g) ==
  /\ NoGarbage
  /\ options.savePreviousSongs
  /\ LET q == getQueue(guildQueues, g) IN
     /\ q # 0
     /\ queues[q].previousSongs # <<>>
     /\ Commit(previous(World, q), Command, q)

\* DisTube#stop
Stop(g) ==
  /\ NoGarbage
  /\ LET q == getQueue(guildQueues, g) IN
     /\ q # 0
     /\ Commit(stop(World, q), "stop", q)

\* DisTube#setRepeatMode
SetRepeatMode(g, mode) ==
  /\ NoGarbage
  /\ LET q == getQueue(guildQueues, g) IN
     /\ q # 0
     /\ Commit([World EXCEPT !.qs[q].repeatMode = setRepeatMode(@, mode)],
               Command, q)

\* The name a step carries for setRepeatMode(mode); -1 stands for null.
RepeatOp(mode) ==
  CASE mode = -1 -> "repeatToggle"
    [] mode = 0 -> "repeatOff"
    [] mode = 1 -> "repeatOne"
    [] mode = 2 -> "repeatAll"

\* setRepeatMode(interaction, mode); the step records the argument
SetRepeat(g, mode) ==
  /\ NoGarbage
  /\ LET q == getQueue(guildQueues, g) IN
     /\ q # 0
     /\ Commit([World EXCEPT !.qs[q].repeatMode = setRepeatMode(@, mode)],
               RepeatOp(mode), q)

\* The name a step carries for jump(num)
JumpOp(n) == "jump" \o ToString(n)

\* jump(interaction, num): throws for an invalid num; with a valid one the
\* Queue jumps and ends the playing stream, whose "finish" event runs the
\* finish continuation.
Jump(g, n) ==
  /\ NoGarbage
  /\ LET q == getQueue(guildQueues, g) IN
     /\ q # 0
     /\ IF validJump(queues[q], n)
          THEN /\ queues[q].dispatcher = "live"
               /\ LET w0 == [jump(World, q, n) EXCEPT
                               !.qs[q].dispatcher = "done"]
                  IN \E w \in _handleSongFinish(w0, q) :
                       Commit(w, JumpOp(n), q)
          ELSE Commit(World, JumpOp(n), q)

\* DisTube#toggleAutoplay
ToggleAutoplay(g) ==
  /\ NoGarbage
  /\ LET q == getQueue(guildQueues, g) IN
     /\ q # 0
     /\ Commit([World EXCEPT !.qs[q].autoplay = ~@], Command, q)

(***************************************************************************)
(* Specifications.  Each one composes the steps its properties are about;  *)
(* all share Init and the handlers above.                                  *)
(***************************************************************************)
Playlists == {<<2>>, <<1, 2, 3>>}

\* One Queue per guild, joins succeed: the continuation protocol under every
\* interleaving of play, skip, setRepeatMode and the stream's signals.
Next ==
  \/ \E q \in QIds : Collect(q)
  \/ \E g \in Guilds, items \in Playlists, sk \in BOOLEAN :
       Play(g, items, sk, {1}, MaxSongs)
  \/ \E q \in QIds, i \in 1 .. 2 : JoinResolves(q, i)
  \/ \E q \in QIds, i \in 1 .. 2, ok \in BOOLEAN : FetchSettles(q, i, ok)
  \/ \E q \in QIds : DispatcherFinish(q)
  \/ \E q \in QIds : DispatcherError(q)
  \/ \E g \in Guilds : Skip(g)
  \/ \E g \in Guilds, mode \in {-1} : SetRepeatMode(g, mode)

Spec == Init /\ [][Next]_vars

\* The same with previous() in place of setRepeatMode.
NextPrev ==
  \/ \E q \in QIds : Collect(q)
  \/ \E g \in Guilds, items \in Playlists, sk \in BOOLEAN :
       Play(g, items, sk, {1}, MaxSongs)
  \/ \E q \in QIds, i \in 1 .. 2 : JoinResolves(q, i)
  \/ \E q \in QIds, i \in 1 .. 2, ok \in BOOLEAN : FetchSettles(q, i, ok)
  \/ \E q \in QIds : DispatcherFinish(q)
  \/ \E q \in QIds : DispatcherError(q)
  \/ \E g \in Guilds : Skip(g)
  \/ \E g \in Guilds : Previous(g)

SpecPrev == Init /\ [][NextPrev]_vars

\* stop(), autoplay and the related-song lookup.
NextStop ==
  \/ \E q \in QIds : Collect(q)
  \/ \E g \in Guilds, items \in Playlists, sk \in BOOLEAN :
       Play(g, items, sk, {1}, MaxSongs)
  \/ \E q \in QIds, i \in 1 .. 2 : JoinResolves(q, i)
  \/ \E q \in QIds, i \in 1 .. 2, ok \in BOOLEAN : FetchSettles(q, i, ok)
  \/ \E q \in QIds, i \in 1 .. 2, r \in RelatedIds \cup {Undefined} :
       RelatedSettles(q, i, r)
  \/ \E q \in QIds : DispatcherFinish(q)
  \/ \E q \in QIds : DispatcherError(q)
  \/ \E q \in QIds : DispatcherDrop(q)
  \/ \E g \in Guilds : Stop(g)
  \/ \E g \in Guilds : ToggleAutoplay(g)

SpecStop == InitStop /\ [][NextStop]_vars

\* Joins that fail and are retried, with a second Queue object for the guild
\* while the first one's join is still pending.
NextJoin ==
  \/ \E q \in QIds : Collect(q)
  \/ \E g \in Guilds, items \in {<<1>>}, sk \in {FALSE} :
       Play(g, items, sk, QIds, MaxSongs - 1)
  \/ \E q \in QIds, i \in 1 .. 2 : JoinResolves(q, i)
  \/ \E q \in QIds, i \in 1 .. 2 : JoinRejects(q, i)
  \/ \E q \in QIds, i \in 1 .. 2, ok \in BOOLEAN : FetchSettles(q, i, ok)
  \/ \E q \in QIds : DispatcherFinish(q)
  \/ \E q \in QIds : DispatcherError(q)
  \/ \E q \in QIds : DispatcherDrop(q)
  \/ \E g \in Guilds : Stop(g)

SpecJoin == Init /\ [][NextJoin]_vars

\* The voice connection's own signals, with stop() and the stream's signals.
NextConnection ==
  \/ \E q \in QIds : Collect(q)
  \/ \E g \in Guilds, items \in Playlists, sk \in {FALSE} :
       Play(g, items, sk, {1}, MaxSongs)
  \/ \E q \in QIds, i \in 1 .. 2 : JoinResolves(q, i)
  \/ \E q \in QIds, i \in 1 .. 2, ok \in BOOLEAN : FetchSettles(q, i, ok)
  \/ \E q \in QIds : DispatcherFinish(q)
  \/ \E q \in QIds : DispatcherError(q)
  \/ \E q \in QIds : DispatcherDrop(q)
  \/ \E q \in QIds : ConnectionDisconnect(q)
  \/ \E q \in QIds : ConnectionError(q)
  \/ \E g \in Guilds : Stop(g)

SpecConnection == InitStop /\ [][NextConnection]_vars

\* Play requests that are search strings.
NextSearch ==
  \/ \E q \in QIds : Collect(q)
  \/ \E g \in Guilds, s \in {1, 2}, member \in BOOLEAN, found \in BOOLEAN,
        answer \in Answers, channel \in BOOLEAN :
       PlayQuery(g, s, member, found, answer, channel)
  \/ \E q \in QIds, i \in 1 .. 2 : JoinResolves(q, i)
  \/ \E q \in QIds : DispatcherFinish(q)

SpecSearch == InitSearch /\ [][NextSearch]_vars

InitNsfw ==
  /\ guildQueues = {}
  /\ queues = [q \in QIds |-> NoQueue]
  /\ tasks = [q \in QIds |-> <<>>]
  /\ emitted = <<>>
  /\ last = Step("init", 0, FALSE, FALSE, 0)
  /\ voice = NoVoice
  /\ options \in NsfwOptionSets

\* Songs and playlists with and without age-restricted items.
NsfwItems == {<<1>>, <<3>>, <<1, 3>>, <<3, 3>>}

NextNsfw ==
  \/ \E q \in QIds : Collect(q)
  \/ \E g \in Guilds, items \in NsfwItems, playlist \in BOOLEAN,
        sk \in BOOLEAN, nsfwChannel \in BOOLEAN :
       PlayResolved(g, items, playlist, sk, nsfwChannel)
  \/ \E q \in QIds, i \in 1 .. 2 : JoinResolves(q, i)
  \/ \E q \in QIds : DispatcherFinish(q)

SpecNsfw == InitNsfw /\ [][NextNsfw]_vars

\* Adding to a Queue that plays.
NextAdd ==
  \/ \E q \in QIds : Collect(q)
  \/ \E q \in QIds : PlaySong(q)
  \/ \E g \in Guilds, k \in 1 .. 2, sk \in BOOLEAN : AddSongs(g, k, sk)
  \/ \E q \in QIds : DispatcherFinish(q)

SpecAdd == InitPlaySong /\ [][NextAdd]_vars

\* Repeat modes set on a Queue that plays.
NextRepeat ==
  \/ \E q \in QIds : Collect(q)
  \/ \E q \in QIds : PlaySong(q)
  \/ \E g \in Guilds, mode \in -1 .. 2 : SetRepeat(g, mode)
  \/ \E q \in QIds : DispatcherFinish(q)

SpecRepeat == InitPlaySong /\ [][NextRepeat]_vars

\* A Queue of two or three items that is about to play, in any repeat mode.
InitJump ==
  /\ guildQueues = {<<1, 1>>}
  /\ \E items \in {<<1, 2>>, <<1, 2, 3>>}, mode \in 0 .. 2 :
       queues = [q \in QIds |->
                  IF q = 1 THEN [Queue(1, items) EXCEPT !.connection = "ready",
                                                        !.joins = 1,
                                                        !.repeatMode = mode]
                           ELSE NoQueue]
  /\ tasks = [q \in QIds |-> <<>>]
  /\ emitted = <<>>
  /\ last = Step("init", 0, FALSE, FALSE, 0)
  /\ voice = NoVoice
  /\ options \in OptionSets

\* the numbers jump is called with
JumpArgs == (0 - MaxHistory - 1) .. MaxSongs

\* Jumps in a Queue that plays, under every repeat mode.
NextJump ==
  \/ \E q \in QIds : Collect(q)
  \/ \E q \in QIds : PlaySong(q)
  \/ \E g \in Guilds, n \in JumpArgs : Jump(g, n)
  \/ \E q \in QIds : DispatcherFinish(q)

SpecJump == InitJump /\ [][NextJump]_vars

InitPlugins ==
  /\ guildQueues = {}
  /\ queues = [q \in QIds |-> NoQueue]
  /\ tasks = [q \in QIds |-> <<>>]
  /\ emitted = <<>>
  /\ last = Step("init", 0, FALSE, FALSE, 0)
  /\ voice = NoVoice
  /\ options \in PluginOptionSets

\* the URLs requested: 1 is validated by no plugin
Urls == 1 .. 3

\* Play requests with URLs for extractor plugins.
NextPlugins ==
  \/ \E q \in QIds : Collect(q)
  \/ \E g \in Guilds, url \in Urls : PlayURL(g, url)
  \/ \E q \in QIds, i \in 1 .. 2 : JoinResolves(q, i)
  \/ \E q \in QIds : DispatcherFinish(q)

SpecPlugins == InitPlugins /\ [][NextPlugins]_vars

\* Skip and previous requests in a Queue that plays, under every repeat mode.
NextRotate ==
  \/ \E q \in QIds : Collect(q)
  \/ \E q \in QIds : PlaySong(q)
  \/ \E g \in Guilds : Skip(g)
  \/ \E g \in Guilds : Previous(g)
  \/ \E q \in QIds : DispatcherFinish(q)

SpecRotate == InitJump /\ [][NextRotate]_vars

\* A Queue of two or three items that is about to play, in any repeat mode,
\* with the retention policy on or off.
InitHistory ==
  /\ guildQueues = {<<1, 1>>}
  /\ \E items \in {<<1, 2>>, <<1, 2, 3>>}, mode \in 0 .. 2 :
       queues = [q \in QIds |->
                  IF q = 1 THEN [Queue(1, items) EXCEPT !.connection = "ready",
                                                        !.joins = 1,
                                                        !.repeatMode = mode]
                           ELSE NoQueue]
  /\ tasks = [q \in QIds |-> <<>>]
  /\ emitted = <<>>
  /\ last = Step("init", 0, FALSE, FALSE, 0)
  /\ voice = NoVoice
  /\ options \in HistoryOptionSets

\* Finishes and playback errors of a Queue that plays, with skip and previous
\* requests.
NextHistory ==
  \/ \E q \in QIds : Collect(q)
  \/ \E q \in QIds : PlaySong(q)
  \/ \E q \in QIds, i \in 1 .. 2, ok \in BOOLEAN : FetchSettles(q, i, ok)
  \/ \E g \in Guilds : Skip(g)
  \/ \E g \in Guilds : Previous(g)
  \/ \E q \in QIds : DispatcherFinish(q)
  \/ \E q \in QIds : DispatcherError(q)

SpecHistory == InitHistory /\ [][NextHistory]_vars

\* A Queue of one to three items that is about to play, repeat and autoplay
\* off.
InitDrain ==
  /\ guildQueues = {<<1, 1>>}
  /\ \E items \in {<<1>>, <<1, 2>>, <<1, 2, 3>>} :
       queues = [q \in QIds |->
                  IF q = 1 THEN [Queue(1, items) EXCEPT !.connection = "ready",
                                                        !.joins = 1]
                           ELSE NoQueue]
  /\ tasks = [q \in QIds |-> <<>>]
  /\ emitted = <<>>
  /\ last = Step("init", 0, FALSE, FALSE, 0)
  /\ voice = NoVoice
  /\ options \in HistoryOptionSets

\* the stream's terminal signals
Terminal == \E q \in QIds : DispatcherFinish(q) \/ DispatcherError(q)

\* the promises playSong awaits settle
Settles ==
  \E q \in QIds, i \in 1 .. 2, ok \in BOOLEAN : FetchSettles(q, i, ok)

\* A Queue that plays to its end: no add, no previous, no repeat, no
\* autoplay; skip requests may come.
NextDrain ==
  \/ \E q \in QIds : Collect(q)
  \/ \E q \in QIds : PlaySong(q)
  \/ Settles
  \/ \E g \in Guilds : Skip(g)
  \/ Terminal

\* Terminal signals are delivered, awaited promises settle and the first
\* playSong is called.
SpecDrain ==
  /\ InitDrain /\ [][NextDrain]_vars
  /\ WF_vars(Terminal)
  /\ WF_vars(Settles)
  /\ WF_vars(\E q \in QIds : PlaySong(q))

\* The continuation protocol with emitNewSongOnly on and off.
SpecNewSongOnly == InitNewSongOnly /\ [][Next]_vars

\* playSong on whatever pending holds, and what follows.
NextPlaySong ==
  \/ \E q \in QIds : Collect(q)
  \/ \E q \in QIds : PlaySong(q)
  \/ \E g \in Guilds, items \in Playlists, sk \in BOOLEAN :
       Play(g, items, sk, {1}, MaxSongs)
  \/ \E q \in QIds, i \in 1 .. 2 : JoinResolves(q, i)
  \/ \E q \in QIds, i \in 1 .. 2, ok \in BOOLEAN : FetchSettles(q, i, ok)
  \/ \E q \in QIds : DispatcherFinish(q)
  \/ \E q \in QIds : DispatcherError(q)

SpecPlaySong == InitPlaySong /\ [][NextPlaySong]_vars

\* Two guilds, each with a queue of its own or none, and the commands.
NextGuilds ==
  \/ \E q \in QIds : Collect(q)
  \/ \E g \in GuildIds, items \in {<<1>>}, sk \in {FALSE} :
       Play(g, items, sk, QIds, Len(items))
  \/ \E q \in QIds, i \in 1 .. 2 : JoinResolves(q, i)
  \/ \E q \in QIds : DispatcherFinish(q)
  \/ \E g \in GuildIds, name \in Mutators :
       Mutator(g, name, {"stop", "skip", "previous"})

SpecGuilds == Init /\ [][NextGuilds]_vars

\* Play requests that fail: in their resolution, or in a join.
NextPlay ==
  \/ \E q \in QIds : Collect(q)
  \/ \E g \in Guilds, items \in {<<1>>, <<2, 3>>}, sk \in BOOLEAN :
       Play(g, items, sk, {1}, MaxSongs)
  \/ \E g \in Guilds, channel \in BOOLEAN : PlayRejects(g, channel)
  \/ \E q \in QIds, i \in 1 .. 2 : JoinResolves(q, i)
  \/ \E q \in QIds, i \in 1 .. 2 : JoinRejects(q, i)
  \/ \E q \in QIds : DispatcherFinish(q)

SpecPlay == Init /\ [][NextPlay]_vars

\* Streams that fail while they play, next to dispatchers that fail or finish.
NextStream ==
  \/ \E q \in QIds : Collect(q)
  \/ \E g \in Guilds, items \in Playlists, sk \in BOOLEAN :
       Play(g, items, sk, {1}, MaxSongs)
  \/ \E q \in QIds, i \in 1 .. 2 : JoinResolves(q, i)
  \/ \E q \in QIds, i \in 1 .. 2, ok \in BOOLEAN : FetchSettles(q, i, ok)
  \/ \E q \in QIds : DispatcherFinish(q)
  \/ \E q \in QIds : DispatcherError(q)
  \/ \E q \in QIds : StreamError(q)

SpecStream == Init /\ [][NextStream]_vars

\* The voice channel empties and fills while queues play, stop and start anew;
\* a play request starts a queue and adds nothing to one that exists.
NextEmpty ==
  \/ \E q \in QIds : Collect(q)
  \/ \E g \in Guilds, items \in {<<1, 2>>}, sk \in {FALSE} :
       Play(g, items, sk, QIds, Len(items))
  \/ \E q \in QIds, i \in 1 .. 2 : JoinResolves(q, i)
  \/ \E q \in QIds : DispatcherFinish(q)
  \/ \E q \in QIds : DispatcherDrop(q)
  \/ \E g \in Guilds : Stop(g)
  \/ \E g \in Guilds : MemberLeaves(g)
  \/ \E g \in Guilds, moved \in BOOLEAN : MemberJoins(g, moved)
  \/ \E g \in Guilds : VoiceStateUpdate(g)
  \/ \E q \in QIds : EmptyTimeout(q)
  \/ \E g \in Guilds, more \in BOOLEAN : GuildTimeout(g, more)

SpecEmpty == Init /\ [][NextEmpty]_vars

(***************************************************************************)
(* Properties.                                                             *)
(***************************************************************************)
\* how often the event ev of Queue q occurs in an event log
Count(log, ev, q) ==
  Cardinality({i \in DOMAIN log : log[i].ev = ev /\ log[i].q = q})

\* seq without its first n items
Drop(seq, n) == SubSeq(seq, n + 1, Len(seq))

\* C1: in every reachable state the registry holds at most one Queue per
\* guild id, and every Queue has at most one active dispatcher: no stream is
\* started on a Queue whose previous dispatcher is still playing.  It holds
\* under play requests (which append to a registered Queue), finish and error
\* signals, failing and retried joins, stop() and deletions.
C1_OneQueueOneStream ==
  /\ \A p1 \in guildQueues : \A p2 \in guildQueues : p1[1] = p2[1] => p1 = p2
  /\ \A q \in QIds :
       (IF queues[q].dispatcher = "live" THEN 1 ELSE 0) + queues[q].orphans <= 1

\* C1's case: two Queue objects of one guild play at the same time (the first
\* one's join was retried after the registry dropped it), one of them
\* registered, and a play request has appended to a registered Queue.
C1_Witness ==
  /\ Cardinality(guildQueues) = 1
  /\ \A q \in QIds : queues[q].dispatcher = "live"
  /\ \E q \in QIds : Len(queues[q].songs) = 2

\* C2: with repeat off, autoplay off and neither skip nor previous requested,
\* the finish of a head that is not the last item appends it to the history
\* and makes the next pending item the head (items whose stream then fails to
\* start are dropped in turn); the finish of the last item leaves pending and
\* history alone, deletes the queue from the registry and emits 'finish'.
C2_FinishAdvances ==
  [][\A q \in QIds :
       (/\ last'.op = "finish" /\ last'.q = q
        /\ ~queues[q].stopped /\ queues[q].repeatMode = 0
        /\ ~queues[q].autoplay /\ ~queues[q].next /\ ~queues[q].prev)
       => IF Len(queues[q].songs) > 1
            THEN /\ queues'[q].songs = Drop(Tail(queues[q].songs), last'.drops)
                 /\ queues'[q].previousSongs =
                      Append(queues[q].previousSongs, queues[q].songs[1])
                 /\ (queues'[q].songs # <<>>
                       => <<queues[q].id, q>> \in guildQueues')
                 /\ Count(emitted', "finish", q) = 0
            ELSE /\ queues'[q].songs = queues[q].songs
                 /\ queues'[q].previousSongs = queues[q].previousSongs
                 /\ <<queues[q].id, q>> \notin guildQueues'
                 /\ Count(emitted', "finish", q) = 1
                 /\ Count(emitted', "deleteQueue", q) = 1]_vars

\* C2's case: [1, 2, 3] was played through; the finish of 3 found the history
\* [1, 2], emitted 'finish' and deleted the queue.
C2_Witness ==
  \E q \in QIds :
    /\ last.op = "finish" /\ last.q = q
    /\ queues[q].songs = <<3>> /\ queues[q].previousSongs = <<1, 2>>
    /\ queues[q].repeatMode = 0
    /\ ~Registered(q)
    /\ Count(emitted, "finish", q) = 1

\* C3: under repeat-all, the finish of the only item of a queue whose history
\* is empty, followed by a stream that starts without failure, leaves the
\* history empty (the head is rotated, not appended).
C3_HistoryStaysEmpty ==
  [][\A q \in QIds :
       (/\ last'.op = "finish" /\ last'.q = q /\ last'.drops = 0
        /\ ~queues[q].stopped /\ queues[q].repeatMode = 2
        /\ ~queues[q].next /\ ~queues[q].prev
        /\ Len(queues[q].songs) = 1 /\ queues[q].previousSongs = <<>>)
       => queues'[q].previousSongs = <<>>]_vars

\* C4: the finish that follows skip() (no previous requested) moves the head
\* one position on, in every repeat mode: of two or more pending items the
\* second becomes the head (repeat-all rotates the skipped one to the end);
\* a single item ends the queue, except under repeat-all where it is the
\* whole rotation.  Under repeat-one the next stream is not the skipped item.
C4_SkipAdvances ==
  [][\A q \in QIds :
       (/\ last'.op = "finish" /\ last'.q = q
        /\ ~queues[q].stopped /\ ~queues[q].autoplay
        /\ queues[q].next /\ ~queues[q].prev
        /\ queues[q].songs # <<>>)
       => LET songs == queues[q].songs
              rotated == IF queues[q].repeatMode = 2
                           THEN Tail(songs) \o <<songs[1]>> ELSE Tail(songs)
          IN IF rotated # <<>>
               THEN /\ queues'[q].songs = Drop(rotated, last'.drops)
                    /\ ~queues'[q].next
                    /\ (Len(songs) > 1 /\ last'.drops = 0
                          => queues'[q].songs[1] = songs[2])
               ELSE /\ <<queues[q].id, q>> \notin guildQueues'
                    /\ queues'[q].dispatcher # "live"
                    /\ tasks'[q] = <<>>]_vars

\* C4's case: under repeat-one a skip was requested, the stream finished, and
\* the item now playing is not the skipped one, which went to the history.
C4_Witness ==
  \E q \in QIds :
    /\ last.op = "finish" /\ last.q = q /\ last.next
    /\ queues[q].repeatMode = 1
    /\ queues[q].dispatcher = "live"
    /\ queues[q].songs = <<2, 3>> /\ queues[q].previousSongs = <<1>>

\* C5: the finish that follows previous() (not repeat-all) finds a non-empty
\* history, moves its most recent entry in front of pending, where it is the
\* new head, removes it from the history and does not push the interrupted
\* head to the history (items whose stream then fails to start are dropped).
C5_PreviousRestores ==
  [][\A q \in QIds :
       (/\ last'.op = "finish" /\ last'.q = q
        /\ ~queues[q].stopped /\ queues[q].prev /\ queues[q].repeatMode # 2)
       => LET history == queues[q].previousSongs
              n == Len(history)
          IN /\ n > 0
             /\ queues'[q].songs =
                  Drop(<<history[n]>> \o queues[q].songs, last'.drops)
             /\ queues'[q].previousSongs = SubSeq(history, 1, n - 1)
             /\ ~queues'[q].prev]_vars

\* C5's case: with history [1, 2] and pending [3], previous() and the finish
\* have left pending [2, 3] and history [1].
C5_Witness ==
  \E q \in QIds :
    /\ last.op = "finish" /\ last.q = q /\ last.prev /\ last.drops = 0
    /\ queues[q].songs = <<2, 3>> /\ queues[q].previousSongs = <<1>>
    /\ Registered(q)

\* C6 as stated: whenever the related-item lookup started by the finish of the
\* last item (autoplay on) fails, the queue is deleted, 'noRelated' is emitted
\* exactly once and neither 'playSong' nor 'finish' is emitted.
C6_NoRelatedDeletes ==
  [][\A q \in QIds :
       (last'.op = "relatedFail" /\ last'.q = q)
       => /\ <<queues[q].id, q>> \notin guildQueues'
          /\ Count(emitted', "deleteQueue", q) = 1
          /\ Count(emitted', "noRelated", q) = 1
          /\ Count(emitted', "playSong", q) = 0
          /\ Count(emitted', "finish", q) = 0]_vars

\* C6, amended: the same, provided that when the lookup fails pending still
\* holds at most the finished item and autoplay is still enabled (no play
\* request and no toggleAutoplay took effect while the lookup was pending).
C6_NoRelatedDeletesUndisturbed ==
  [][\A q \in QIds :
       (/\ last'.op = "relatedFail" /\ last'.q = q
        /\ Len(queues[q].songs) <= 1 /\ queues[q].autoplay)
       => /\ <<queues[q].id, q>> \notin guildQueues'
          /\ Count(emitted', "deleteQueue", q) = 1
          /\ Count(emitted', "noRelated", q) = 1
          /\ Count(emitted', "playSong", q) = 0
          /\ Count(emitted', "finish", q) = 0]_vars

\* C6's case: the lookup has failed for a queue that still had autoplay on and
\* only the finished item; the queue is gone and 'noRelated' was emitted.
C6_Witness ==
  \E q \in QIds :
    /\ last.op = "relatedFail" /\ last.q = q
    /\ Len(queues[q].songs) = 1 /\ queues[q].autoplay /\ ~queues[q].stopped
    /\ ~Registered(q)
    /\ Count(emitted, "noRelated", q) = 1

\* C7: a stream error, a failed metadata fetch or a failure to start the
\* stream removes the head of pending and nothing else, once per failure (the
\* next head's stream may fail to start in the same step); the history is
\* untouched.  If items remain the new head is played (its stream is live or
\* its metadata is being fetched), a registered queue stays registered and is
\* not stopped; the queue is stopped and deleted only when nothing remains.
C7_ErrorDropsHead ==
  [][\A q \in QIds :
       (/\ last'.q = q /\ last'.op \in {"error", "fetchFail", "fetchOk"}
        /\ last'.drops > 0)
       => /\ queues'[q].songs = Drop(queues[q].songs, last'.drops)
          /\ (last'.drops = 1 => queues'[q].songs = Tail(queues[q].songs))
          /\ queues'[q].previousSongs = queues[q].previousSongs
          /\ IF queues'[q].songs # <<>>
               THEN /\ Registered(q) => <<queues[q].id, q>> \in guildQueues'
                    /\ queues'[q].stopped = queues[q].stopped
                    /\ \/ queues'[q].dispatcher = "live"
                       \/ tasks'[q] = <<FetchTask(TRUE)>>
               ELSE /\ queues'[q].stopped
                    /\ <<queues[q].id, q>> \notin guildQueues'
                    /\ queues'[q].dispatcher # "live"
                    /\ tasks'[q] = <<>>]_vars

\* C7's case: the playing stream of [1, 2, 3] has failed; 1 is gone, 2 is
\* playing, the queue is still registered and not stopped.
C7_Witness ==
  \E q \in QIds :
    /\ last.op = "error" /\ last.q = q /\ last.drops = 1
    /\ queues[q].songs = <<2, 3>> /\ queues[q].previousSongs = <<>>
    /\ queues[q].dispatcher = "live"
    /\ Registered(q) /\ ~queues[q].stopped

\* C8: stopped is terminal: a continuation that was suspended at the metadata
\* fetch or at the related-item lookup when stop() came opens no stream for
\* the stopped queue when it resumes.
C8_NoStreamAfterStop ==
  [][\A q \in QIds :
       (/\ last'.q = q
        /\ last'.op \in {"fetchOk", "fetchFail", "relatedOk", "relatedFail"}
        /\ queues[q].stopped)
       => queues'[q].dispatcher # "live"]_vars

\* C9: a Queue has at most one continuation in progress: at most one suspended
\* call, none while its stream is playing, and no stream is ever started
\* while the previous one has not delivered its terminal signal.
C9_OneCycle ==
  \A q \in QIds :
    /\ Len(tasks[q]) <= 1
    /\ queues[q].orphans = 0
    /\ queues[q].dispatcher = "live" => tasks[q] = <<>>

\* C9's case: a skip request arrived while the continuation started by a
\* finish is suspended at the metadata fetch; it is the only one.
C9_Witness ==
  \E q \in QIds :
    /\ tasks[q] = <<FetchTask(TRUE)>>
    /\ queues[q].next
    /\ queues[q].previousSongs # <<>>
    /\ queues[q].dispatcher = "done"

\* C10: voice.join() is called at most twice for a Queue.  The first failure
\* starts exactly one retry and surfaces no error; the failure of the retry
\* surfaces the error once and leaves the guild without a registered Queue
\* and the failed Queue without connection, dispatcher, stream or pending
\* call.
C10_JoinTwice ==
  [][/\ \A q \in QIds : queues'[q].joins <= 2
     /\ \A q \in QIds :
          (last'.op = "joinFail" /\ last'.q = q)
          => IF queues[q].joins = 1
               THEN /\ tasks'[q] = <<JoinTask(TRUE)>>
                    /\ queues'[q].joins = 2
                    /\ Count(emitted', "error", q) = 0
               ELSE /\ tasks'[q] = <<>>
                    /\ queues'[q].joins = 2
                    /\ Count(emitted', "error", q) = 1
                    /\ getQueue(guildQueues', queues[q].id) = 0
                    /\ queues'[q].connection = "none"
                    /\ queues'[q].dispatcher = "none"
                    /\ queues'[q].stream = "none"]_vars

\* C10's case: the retry has failed too; the error was surfaced.
C10_Witness ==
  \E q \in QIds :
    /\ last.op = "joinFail" /\ last.q = q
    /\ queues[q].joins = 2 /\ tasks[q] = <<>>
    /\ Count(emitted, "error", q) = 1
    /\ getQueue(guildQueues, queues[q].id) = 0

C13_NoStreamLeftOpen == ~last.leaked

\* C14: the empty-channel timer of a queue is cancelled on any song start: a
\* step that starts a stream on a queue leaves no timer of that queue armed.
\* The code does not keep it: only the voiceStateUpdate handler clears
\* queue.emptyTimeout, playSong never does.
C14_SongStartCancels ==
  [][\A q \in QIds :
       (last'.q = q /\ last'.starts >= 1)
       => queues'[q].emptyTimeout = "none"]_vars

\* C15: an empty-channel timer that expires after its queue was deleted
\* deletes nothing of a new session of the same guild: the registry keeps its
\* entries and every other Queue stays as it is.  The code does not keep it:
\* _deleteQueue does not clear the timer, and the callback leaves the channel
\* and deletes the guild's entry, whichever Queue it holds.
C15_StaleTimerHarmless ==
  [][\A q \in QIds :
       (last'.op = "emptyTimeout" /\ last'.q = q /\ ~Registered(q))
       => /\ guildQueues' = guildQueues
          /\ \A p \in QIds \ {q} : queues'[p] = queues[p]]_vars

\* C16: a failure of the playing stream gives one 'error' at most.  The
\* stream's 'error' emits one and leaves pending as it is; the dispatcher's
\* error that follows drops the head and emits none, where a dispatcher error
\* without a stream error emits one (when the step drops one item: a next
\* head that fails to start has an 'error' of its own).
C16_OneErrorPerFailure ==
  [][\A q \in QIds :
       /\ (last'.q = q /\ last'.op = "streamError")
          => /\ Count(emitted', "error", q) = 1
             /\ queues'[q].songs = queues[q].songs
             /\ queues'[q].dispatcher = "live"
       /\ (/\ last'.q = q /\ last'.op = "error" /\ last'.drops = 1
           /\ queues[q].dispatcher = "live")
          => /\ Count(emitted', "error", q) =
                  (IF queues[q].errorEmitted THEN 0 ELSE 1)
             /\ queues'[q].songs = Tail(queues[q].songs)]_vars

\* C16's case: the stream of the head of [1, 2, 3] has emitted its 'error',
\* the dispatcher's error has followed: 1 is dropped, 2 plays, and the step
\* has emitted no 'error'.
C16_Witness ==
  \E q \in QIds :
    /\ last.op = "error" /\ last.q = q /\ last.drops = 1
    /\ Count(emitted, "error", q) = 0
    /\ queues[q].songs = <<2, 3>> /\ queues[q].dispatcher = "live"

C18_OtherGuildsUntouched ==
  [][\A g \in GuildIds :
       last'.guild = g
       => /\ (\A p \in guildQueues : p[1] # g)
               => /\ last'.op = "throws"
                  /\ guildQueues' = guildQueues /\ queues' = queues
                  /\ tasks' = tasks /\ emitted' = <<>>
          /\ \A q \in QIds :
               queues[q].id # g => queues'[q] = queues[q] /\ tasks'[q] = tasks[q]
          /\ {p \in guildQueues' : p[1] # g} = {p \in guildQueues : p[1] # g}
          /\ \A i \in DOMAIN emitted' : queues[emitted'[i].q].id = g]_vars

\* C18's case: a command was called for a guild without a Queue and has
\* thrown, while the other guild's Queue is playing.
C18_Witness ==
  \E g \in GuildIds :
    /\ last.guild = g /\ last.op = "throws"
    /\ \A p \in guildQueues : p[1] # g
    /\ \E q \in QIds : /\ Registered(q) /\ queues[q].id # g
                       /\ queues[q].dispatcher = "live"

C20_NewHeadEmitted ==
  [][\A q \in QIds :
       (/\ last'.op = "finish" /\ last'.q = q
        /\ last'.starts = 1 /\ last'.drops = 0)
       => (Count(emitted', "playSong", q) = 1
             <=> \/ ~options.emitNewSongOnly
                 \/ First(queues'[q].songs) # First(queues[q].songs))]_vars

\* C21: a play request whose search or selection yields nothing creates no
\* Queue, appends nothing and emits no 'error', with an interaction and with
\* a member alone.  The code does not keep it for a member: resolveSong then
\* calls DisTube#search, which throws when it finds nothing, and the catch of
\* playVoiceChannel emits 'error'.
C21_NothingFoundNoError ==
  [][last'.op = "searchNothing"
       => /\ guildQueues' = guildQueues /\ queues' = queues /\ tasks' = tasks
          /\ \A i \in DOMAIN emitted' : emitted'[i].ev # "error"]_vars
\* C22: with the nsfw option off, a play request made from a text channel
\* that is not NSFW adds no age-restricted item to any queue, whether the
\* request is a single song or a playlist.
C22_NoRestrictedInPlainChannel ==
  [][last'.op = "playPlainChannel" /\ ~options.nsfw
       => \A q \in QIds :
            Len(SelectSeq(queues'[q].songs, age_restricted))
              <= Len(SelectSeq(queues[q].songs, age_restricted))]_vars

C24_RepeatModeSet ==
  [][/\ last'.op = "repeatToggle"
          => queues'[last'.q].repeatMode
               = (queues[last'.q].repeatMode + 1) % 3
     /\ \A mode \in 0 .. 2 :
          last'.op = RepeatOp(mode)
            => queues'[last'.q].repeatMode = mode]_vars

\* jump(n) for an n that is 0 or outside [-history.length, pending.length-1]
\* leaves pending, history, flags and the active stream as they were.
JumpRejected(n) ==
  last'.op = JumpOp(n)
    => LET Q == queues[last'.q]
       IN (n = 0 \/ n > Len(Q.songs) - 1 \/ 0 - n > Len(Q.previousSongs))
            => /\ queues' = queues /\ tasks' = tasks
               /\ guildQueues' = guildQueues /\ emitted' = <<>>

\* a valid jump(n), n > 0, and the finish it forces (no stream failing to
\* start): the new head is the nth pending item and the n items in front of
\* it, the playing head included, are the newest history entries.
JumpForward(n) ==
  last'.op = JumpOp(n) /\ last'.drops = 0
    => LET Q == queues[last'.q]
       IN (n > 0 /\ n <= Len(Q.songs) - 1)
            => /\ First(queues'[last'.q].songs) = Q.songs[n + 1]
               /\ queues'[last'.q].previousSongs =
                    Q.previousSongs
                      \o [i \in 1 .. n |-> HistoryEntry(Q.songs[i])]

\* a valid jump(n), n < 0, and the finish it forces: the new head is the
\* |n|-th most recent history entry.
JumpBack(n) ==
  last'.op = JumpOp(n) /\ last'.drops = 0
    => LET Q == queues[last'.q]
           h == Len(Q.previousSongs)
       IN (n < 0 /\ 0 - n <= h)
            => First(queues'[last'.q].songs) = Q.previousSongs[h + n + 1]

\* C25 as stated: an invalid jump(n) fails and changes nothing; a valid
\* jump(n) with n > 0 makes the nth pending item the head, with n items in
\* front of it in the history; a valid jump(n) with n < 0 makes the |n|-th
\* most recent history entry the head.
C25_Jump ==
  [][\A n \in JumpArgs : JumpRejected(n) /\ JumpForward(n) /\ JumpBack(n)]_vars

\* C25 amended: the same, the backward jump for a Queue that is not in
\* repeat-all (under repeat-all the finish rotates pending instead).
C25_JumpNotRepeatAll ==
  [][\A n \in JumpArgs :
       /\ JumpRejected(n) /\ JumpForward(n)
       /\ (last'.op = JumpOp(n) /\ queues[last'.q].repeatMode # 2)
            => JumpBack(n)]_vars

\* jump(-2) carried out: history [1, 2] and pending [3] have become pending
\* [1, 2, 3].
C25_Witness ==
  /\ last.op = JumpOp(0 - 2) /\ last.drops = 0
  /\ queues[last.q].songs = <<1, 2, 3>>
  /\ queues[last.q].previousSongs = <<>>

\* the plugins of the calls of one kind the last step logged, in call order
Called(log, kind) ==
  LET calls == SelectSeq(log, LAMBDA e : e.ev = kind)
  IN [i \in DOMAIN calls |-> calls[i].s]

\* C26: a play request with a URL that is not native asks the extractor
\* plugins in registration order up to the first that validates it, and that
\* plugin resolves it: its song is queued and no later plugin is asked.  When
\* none validates, all were asked, the request fails with an error and no
\* queue, registry entry or suspended call changes.
C26_FirstValidatingPlugin ==
  [][\A url \in Urls :
       last'.op = UrlOp(url)
         => LET P == options.plugins
                ok == {i \in DOMAIN P : url \in P[i]}
                q == getQueue(guildQueues', last'.guild)
            IN IF ok = {}
                 THEN /\ Called(emitted', "validate") = [i \in DOMAIN P |-> i]
                      /\ Called(emitted', "resolve") = <<>>
                      /\ Count(emitted', "error", getQueue(guildQueues, last'.guild)) = 1
                      /\ queues' = queues /\ guildQueues' = guildQueues
                      /\ tasks' = tasks
                 ELSE LET f == CHOOSE i \in ok : \A m \in ok : i <= m
                      IN /\ Called(emitted', "validate") = [i \in 1 .. f |-> i]
                         /\ Called(emitted', "resolve") = <<f>>
                         /\ q # 0
                         /\ Last(queues'[q].songs) = f
                         /\ Count(emitted', "error", q) = 0]_vars

\* URL 3, refused by the first plugin and validated by the second: the first
\* two were asked, the second resolved it and its song is queued.
C26_Witness ==
  /\ last.op = UrlOp(3)
  /\ options.plugins[1] = {2}
  /\ Called(emitted, "validate") = <<1, 2>>
  /\ Called(emitted, "resolve") = <<2>>
  /\ \E q \in QIds : Registered(q) /\ Last(queues[q].songs) = 2

\* C27: whenever the finish continuation or the error continuation starts a
\* stream, the Queue's one-shot flags next and prev are both false, so that a
\* skip or previous request is spent on one continuation.
C27_FlagsClearedAtStart ==
  [][(last'.op \in {"finish", "error"} /\ last'.starts > 0)
       => /\ ~queues'[last'.q].next
          /\ ~queues'[last'.q].prev]_vars

\* C28: a finish with previous requested under repeat-all moves the tail of
\* pending to its front and nothing else: the finished head is not appended,
\* the history is unchanged and pending holds the same items as before
\* (less those whose stream then fails to start).
C28_PreviousRotates ==
  [][\A q \in QIds :
       (/\ last'.op = "finish" /\ last'.q = q
        /\ ~queues[q].stopped /\ queues[q].prev /\ queues[q].repeatMode = 2)
       => LET songs == queues[q].songs
          IN /\ queues'[q].songs =
                  Drop(<<Last(songs)>> \o Pop(songs), last'.drops)
             /\ queues'[q].previousSongs = queues[q].previousSongs]_vars

\* C28's case: under repeat-all pending [2, 3, 1] with history [1] has become
\* [1, 2, 3] with the finish that followed previous(); the history is [1].
C28_Witness ==
  \E q \in QIds :
    /\ last.op = "finish" /\ last.q = q /\ last.prev /\ last.drops = 0
    /\ queues[q].repeatMode = 2
    /\ queues[q].songs = <<1, 2, 3>> /\ queues[q].previousSongs = <<1>>
    /\ Registered(q)

\* C29: a finish under repeat-one with neither skip nor previous requested
\* leaves pending and history as they were and keeps the Queue registered,
\* a Queue of one item included; the stream of the same head is started
\* again, at once or after its metadata is fetched (an item whose stream
\* fails to start is dropped).
C29_RepeatOneReplays ==
  [][\A q \in QIds :
       (/\ last'.op = "finish" /\ last'.q = q
        /\ ~queues[q].stopped /\ queues[q].repeatMode = 1
        /\ ~queues[q].next /\ ~queues[q].prev)
       => /\ queues'[q].previousSongs = queues[q].previousSongs
          /\ queues'[q].songs = Drop(queues[q].songs, last'.drops)
          /\ last'.drops = 0
               => /\ <<queues[q].id, q>> \in guildQueues'
                  /\ \/ /\ last'.starts = 1
                        /\ queues'[q].stream = "open"
                        /\ queues'[q].dispatcher = "live"
                     \/ \E i \in DOMAIN tasks'[q] :
                          tasks'[q][i].kind = "fetch"]_vars

\* C29's case: the only item of a repeat-one Queue has finished and plays
\* again.
C29_Witness ==
  \E q \in QIds :
    /\ last.op = "finish" /\ last.q = q /\ last.drops = 0 /\ last.starts = 1
    /\ ~last.next /\ ~last.prev
    /\ queues[q].repeatMode = 1
    /\ Len(queues[q].songs) = 1
    /\ Registered(q)

RelatedPlaysNext(q) ==
  LET Q == queues[q] IN
  /\ Count(emitted', "finish", q) = 0
  /\ Count(emitted', "noRelated", q) = 0
  /\ queues'[q].previousSongs
       = Q.previousSongs \o <<HistoryEntry(First(Q.songs))>>
  /\ last'.drops = 0
       => /\ queues'[q].songs \in {<<r>> : r \in RelatedIds}
          /\ <<Q.id, q>> \in guildQueues'
          /\ \/ last'.starts = 1 /\ queues'[q].dispatcher = "live"
             \/ \E i \in DOMAIN tasks'[q] : tasks'[q][i].kind = "fetch"

\* 'finish' is emitted only by a step that deletes a Queue whose autoplay is
\* off
FinishOnlyWhenExhausted ==
  \A q \in QIds :
    Count(emitted', "finish", q) > 0
      => /\ Count(emitted', "finish", q) = 1
         /\ Count(emitted', "deleteQueue", q) = 1
         /\ ~queues[q].autoplay
         /\ <<queues[q].id, q>> \notin guildQueues'

\* C31 as stated: whenever the related-item lookup started by the finish of
\* the last item (autoplay on) finds an item, that item is appended and
\* streamed next, the finished item goes to the history, the Queue stays
\* registered and neither 'finish' nor 'noRelated' is emitted; 'finish' is
\* emitted only when a Queue is exhausted with autoplay disabled.
C31_RelatedFound ==
  [][/\ FinishOnlyWhenExhausted
     /\ \A q \in QIds :
          (last'.op = "relatedOk" /\ last'.q = q) => RelatedPlaysNext(q)]_vars

\* C31, amended: the same, provided that when the lookup returns the Queue
\* is still registered and not stopped and pending still holds the finished
\* item alone (no stop and no play request took effect while the lookup was
\* pending).
C31_RelatedFoundUndisturbed ==
  [][/\ FinishOnlyWhenExhausted
     /\ \A q \in QIds :
          (/\ last'.op = "relatedOk" /\ last'.q = q
           /\ Len(queues[q].songs) = 1 /\ ~queues[q].stopped
           /\ <<queues[q].id, q>> \in guildQueues)
          => RelatedPlaysNext(q)]_vars

\* C31's case: the lookup has found item 2 for a Queue that held the
\* finished item alone; item 2 is the head and its stream has started.
C31_Witness ==
  \E q \in QIds :
    /\ last.op = "relatedOk" /\ last.q = q /\ last.drops = 0
    /\ last.starts = 1
    /\ queues[q].songs = <<2>> /\ Len(queues[q].previousSongs) = 1
    /\ queues[q].autoplay
    /\ Registered(q)
    /\ Count(emitted, "playSong", q) = 1

C33_QueueDrains ==
  /\ [][\A q \in QIds :
          (last'.op \in {"finish", "error"} /\ last'.q = q /\ Registered(q))
          => \/ Len(queues'[q].songs) < Len(queues[q].songs)
             \/ <<queues[q].id, q>> \notin guildQueues']_vars
  /\ \A q \in QIds : Registered(q) ~> ~Registered(q)

\* C33's case: a Queue of three items has played to its end: two are in the
\* history, the last one has finished and the Queue is gone.
C33_Witness ==
  \E q \in QIds :
    /\ last.op = "finish" /\ last.q = q
    /\ Len(queues[q].previousSongs) = 2 /\ queues[q].songs = <<3>>
    /\ ~Registered(q)
    /\ Count(emitted, "finish", q) = 1

\* C34: a Queue whose stream is active (its dispatcher was set by playSong
\* and has not signalled its end) is the Queue registered for its guild.
C34_ActiveIsRegistered ==
  \A q \in QIds : queues[q].dispatcher = "live" => Registered(q)

\* C35: a step removes the registry entry of a Queue only by deleting that
\* Queue: the deletion of another Queue object of the same guild, deleted
\* before or not, leaves the entry of the registered one in place.
C35_DeletesOwnEntryOnly ==
  [][\A p \in QIds :
       (Registered(p) /\ <<queues[p].id, p>> \notin guildQueues')
       => Count(emitted', "deleteQueue", p) >= 1]_vars

\* C36: with emitNewSongOnly off every step emits exactly one 'playSong' for
\* each stream it starts, for the Queue the stream belongs to, and none
\* otherwise: a Queue's first start after the join, the starts of the finish
\* continuation and of the error continuation, and the start of the next
\* head after a head that failed to start.
C36_OnePlaySongPerStart ==
  [][~options.emitNewSongOnly
       => \A q \in QIds :
            Count(emitted', "playSong", q)
              = IF last'.q = q THEN last'.starts ELSE 0]_vars

\* C36's case: the error continuation has dropped two items, the second
\* because its stream failed to start, and has started the third, for which
\* 'playSong' was emitted once.
C36_Witness ==
  \E q \in QIds :
    /\ last.op = "error" /\ last.q = q
    /\ last.drops = 2 /\ last.starts = 1
    /\ ~options.emitNewSongOnly
    /\ Count(emitted, "playSong", q) = 1

\* The voiceStateUpdate events of the model whose old state has a channel
\* (they pass line 115), and all of them.
ChannelEvents == {"memberLeaves", "memberMoves", "voiceStateUpdate"}

MemberEvents == ChannelEvents \cup {"memberJoins"}

\* The channel the client is in, in guild g, has no member that is not a bot.
ChannelEmpty(g) ==
  /\ ~voice[g].occupied
  /\ \E p \in QIds : queues[p].id = g /\ queues[p].connection = "ready"

====
